---- MODULE Spec2Model ----
(***************************************************************************)
(* Friend-recommendation engine of redsocial/usuarios/graph_engine.py:     *)
(* GrafoSocial (adjacency built from the User and Amistad tables, BFS by   *)
(* levels, pairwise distance, common friends) and MotorRecomendaciones     *)
(* (scoring, candidate pool, exclusions, ranking, truncation, statistics). *)
(*                                                                         *)
(* The store (User, Amistad, SolicitudAmistad tables) is drawn in Init     *)
(* from the contents within the bounds: any set of at most MaxAmistades    *)
(* rows joining two different users (one row per pair, usuario1 < usuario2)*)
(* and at most MaxSolicitudes requests between different users, in any     *)
(* estado.  The engine never writes to the store.  The actions are the     *)
(* public methods of the engine, each applied to arguments drawn from      *)
(* small sets; the engine is synchronous, so a call starts only when the   *)
(* previous one has returned, and `llamada` holds the call and its return. *)
(*                                                                         *)
(*   Spec       MotorRecomendaciones as the views use it: one instance per *)
(*              request, obtener_recomendaciones / obtener_estadisticas    *)
(*   SpecGrafo  the queries of GrafoSocial and calcular_puntuacion on an   *)
(*              instance that stays built between calls                    *)
(*   SpecFilas  GrafoSocial over any rows the Amistad table accepts: a     *)
(*              pair in either order or in both, and self rows             *)
(*   SpecPasos  bfs_niveles and distancia_entre_usuarios one loop          *)
(*              iteration per step; `llamada` holds the running frame      *)
(*   SpecEscenario  the engine on the seven-user store of                  *)
(*              crear_datos_prueba.py                                      *)
(*   SpecVistas obtener_recomendaciones one query per step, and            *)
(*              construir_grafo, among the requests of views.py that       *)
(*              change the store (and the deletion of a user)              *)
(*   SpecSolicitudes  the request views from an empty store on, with the  *)
(*              outcome of enviar_solicitud_view                           *)
(***************************************************************************)
EXTENDS Integers, Sequences, FiniteSets

VARIABLES
    usuarios,     \* ids of the rows of the User table
    amistades,    \* rows of Amistad, each <<usuario1_id, usuario2_id>>
    solicitudes,  \* rows of SolicitudAmistad, each [de, para, estado]
    grafo,        \* GrafoSocial.grafo: adjacency dict, id -> set of ids
    construido,   \* GrafoSocial._construido
    llamada       \* the last call made on the engine, with its return value,
                  \* or the frame of the call that is running

vars == <<usuarios, amistades, solicitudes, grafo, construido, llamada>>

----------------------------------------------------------------------------
(* Bounds of the model *)

NumUsuarios == 4        \* Spec: the User table holds ids 1..NumUsuarios
NumUsuariosGrafo == 5   \* SpecGrafo: the User table holds ids 1..NumUsuariosGrafo
MaxAmistades == 4       \* at most this many Amistad rows
MaxSolicitudes == 1     \* at most this many SolicitudAmistad rows
MaxLimite == 3          \* `limite` ranges over -2..MaxLimite
NumUsuariosFilas == 3   \* users 1..NumUsuariosFilas under SpecFilas and SpecPasos
NumUsuariosVistas == 3  \* users 1..NumUsuariosVistas under SpecVistas
MaxCambios == 1         \* store changes during one obtener_recomendaciones
NumUsuariosSolicitudes == 3  \* users under SpecSolicitudes

(* Program constants *)

MaxDistanciaDefault == 5     \* distancia_entre_usuarios(..., max_distancia=5)
NivelMaximoMotor == 4        \* bfs_niveles(usuario_id, nivel_maximo=4)
SinConexion == -1            \* return -1  # No hay conexión
PuntosAmigoComun == 10
PuntosNivel2 == 5
PuntosNivel3 == 2
PuntosLejano == 1
MaxNombres == 3              \* datos['amigos_comun'][:3]

Ids == 1..NumUsuarios
IdsGrafo == 1..NumUsuariosGrafo
IdAusente == NumUsuariosGrafo + 1   \* an id with no row in the User table
Estados == {"pendiente", "aceptada", "rechazada"}

----------------------------------------------------------------------------
(* Helpers: Python containers *)

Min(S) == CHOOSE x \in S : \A y \in S : x <= y

RECURSIVE SetToSeq(_)
\* the elements of a set of ids as a list (ascending); used where the
\* result does not depend on the order the set is iterated in
SetToSeq(S) ==
    IF S = {} THEN <<>> ELSE <<Min(S)>> \o SetToSeq(S \ {Min(S)})

RECURSIVE Ordenes(_)
\* every list holding each element of S exactly once: the orders in which
\* iterating a Python set may yield its elements
Ordenes(S) ==
    IF S = {} THEN {<<>>}
    ELSE UNION {{<<x>> \o p : p \in Ordenes(S \ {x})} : x \in S}

\* dict.get(k, set())
Get(d, k) == IF k \in DOMAIN d THEN d[k] ELSE {}

\* lista[:n] with Python's slice semantics (a negative n counts from the end)
Slice(lista, n) ==
    LET hasta == IF n >= 0 THEN (IF n < Len(lista) THEN n ELSE Len(lista))
                 ELSE (IF Len(lista) + n > 0 THEN Len(lista) + n ELSE 0)
    IN SubSeq(lista, 1, hasta)

\* the reads done by indexing, self.grafo[k]: a defaultdict stores set()
\* under a key it does not hold
TrasIndexar(d, claves) == [k \in DOMAIN d \cup claves |-> Get(d, k)]

\* self.grafo after the reads self.grafo.get(k, set()) for the keys k of
\* `claves`: get() on a defaultdict returns the default without storing it
TrasLecturas(d, claves) == d

\* self.grafo.clear() skipped
SinVaciar(d) == d

\* self.grafo.clear()
Vaciar(d) == <<>>

----------------------------------------------------------------------------
(* GrafoSocial *)

\* construir_grafo that adds each row in one direction only
ConstruirGrafoDirigido(us, am) ==
    LET claves == us \cup {a[1] : a \in am} \cup {a[2] : a \in am}
    IN [n \in claves |-> {a[2] : a \in {x \in am : x[1] = n}}]

\* construir_grafo: every user is a key; every Amistad row adds both directions
ConstruirGrafo(us, am) ==
    LET claves == us \cup {a[1] : a \in am} \cup {a[2] : a \in am}
    IN [n \in claves |->
           {a[2] : a \in {x \in am : x[1] = n}} \cup
           {a[1] : a \in {x \in am : x[2] = n}}]

\* the two loops of construir_grafo, run on a mapping that holds `base`
Poblar(base, us, am) ==
    LET nuevo == ConstruirGrafo(us, am)
    IN [n \in DOMAIN base \cup DOMAIN nuevo |-> Get(base, n) \cup Get(nuevo, n)]

\* obtener_amigos
ObtenerAmigosDe(g, usuario_id) == Get(g, usuario_id)

RECURSIVE BfsBucle(_, _, _, _, _)
\* the while loop of bfs_niveles; cola is a list of <<id, nivel>>
BfsBucle(g, cola, visitados, niveles, nivel_maximo) ==
    IF cola = <<>> THEN niveles
    ELSE LET actual == Head(cola)[1]
             nivel == Head(cola)[2]
             resto == Tail(cola)
         IN IF nivel >= nivel_maximo
            THEN BfsBucle(g, resto, visitados, niveles, nivel_maximo)
            ELSE LET nuevos == Get(g, actual) \ visitados
                     lista == SetToSeq(nuevos)
                     encolados == [i \in 1..Len(lista) |-> <<lista[i], nivel + 1>>]
                     niveles2 ==
                         IF nuevos = {} THEN niveles
                         ELSE [l \in DOMAIN niveles \cup {nivel + 1} |->
                                  IF l = nivel + 1
                                  THEN Get(niveles, l) \cup nuevos
                                  ELSE niveles[l]]
                 IN BfsBucle(g, resto \o encolados, visitados \cup nuevos,
                             niveles2, nivel_maximo)

\* bfs_niveles with the origin not seeded into `visitados`
BfsNivelesSinOrigenVisitado(g, usuario_id, nivel_maximo) ==
    BfsBucle(g, <<<<usuario_id, 0>>>>, {}, <<>>, nivel_maximo)

\* bfs_niveles(usuario_id, nivel_maximo): dict nivel -> set of ids
BfsNivelesDe(g, usuario_id, nivel_maximo) ==
    BfsBucle(g, <<<<usuario_id, 0>>>>, {usuario_id}, <<>>, nivel_maximo)

\* amigos_en_comun
AmigosEnComunDe(g, usuario1_id, usuario2_id) ==
    Get(g, usuario1_id) \cap Get(g, usuario2_id)

RECURSIVE DistanciaBucle(_, _, _, _, _)
\* the while loop of distancia_entre_usuarios
DistanciaBucle(g, cola, visitados, destino_id, max_distancia) ==
    IF cola = <<>> THEN SinConexion
    ELSE LET actual == Head(cola)[1]
             distancia == Head(cola)[2]
             resto == Tail(cola)
         IN IF distancia >= max_distancia
            THEN DistanciaBucle(g, resto, visitados, destino_id, max_distancia)
            ELSE IF destino_id \in Get(g, actual)
                 THEN distancia + 1
                 ELSE LET nuevos == Get(g, actual) \ visitados
                          lista == SetToSeq(nuevos)
                          encolados ==
                              [i \in 1..Len(lista) |-> <<lista[i], distancia + 1>>]
                      IN DistanciaBucle(g, resto \o encolados,
                                        visitados \cup nuevos,
                                        destino_id, max_distancia)

\* distancia_entre_usuarios with the bound tested as `distancia > max_distancia`
DistanciaConCotaLaxa(g, origen_id, destino_id, max_distancia) ==
    IF origen_id = destino_id THEN 0
    ELSE DistanciaBucle(g, <<<<origen_id, 0>>>>, {origen_id},
                        destino_id, max_distancia + 1)

\* distancia_entre_usuarios that gives up one level early
DistanciaCotaEstricta(g, origen_id, destino_id, max_distancia) ==
    IF origen_id = destino_id THEN 0
    ELSE DistanciaBucle(g, <<<<origen_id, 0>>>>, {origen_id},
                        destino_id, max_distancia - 1)

\* distancia_entre_usuarios(origen_id, destino_id, max_distancia)
DistanciaDe(g, origen_id, destino_id, max_distancia) ==
    IF origen_id = destino_id THEN 0
    ELSE DistanciaBucle(g, <<<<origen_id, 0>>>>, {origen_id},
                        destino_id, max_distancia)

----------------------------------------------------------------------------
(* MotorRecomendaciones *)

\* the bonus chain with the last branch dropped and `>= 3` in the second
PuntosCercaniaSinLejano(distancia) ==
    IF distancia = 2 THEN PuntosNivel2
    ELSE IF distancia >= 3 THEN PuntosNivel3
    ELSE 0

\* the bonus chain with the unreachable sentinel counted as a far distance
PuntosCercaniaSentinelaLejana(distancia) ==
    IF distancia = 2 THEN PuntosNivel2
    ELSE IF distancia = 3 THEN PuntosNivel3
    ELSE IF distancia > 3 \/ distancia = SinConexion THEN PuntosLejano
    ELSE 0

\* the distance bonus of calcular_puntuacion (the if / elif / elif chain)
PuntosCercania(distancia) ==
    IF distancia = 2 THEN PuntosNivel2
    ELSE IF distancia = 3 THEN PuntosNivel3
    ELSE IF distancia > 3 THEN PuntosLejano
    ELSE 0

\* calcular_puntuacion(usuario_id, candidato_id)
CalcularPuntuacionDe(g, usuario_id, candidato_id) ==
    LET amigos_comun == AmigosEnComunDe(g, usuario_id, candidato_id)
        num_amigos_comun == Cardinality(amigos_comun)
        distancia == DistanciaDe(g, usuario_id, candidato_id, MaxDistanciaDefault)
    IN [puntuacion |-> num_amigos_comun * PuntosAmigoComun + PuntosCercania(distancia),
        amigos_comun |-> amigos_comun,
        num_amigos_comun |-> num_amigos_comun,
        distancia |-> distancia]

\* ids with a request in state 'pendiente' sent by usuario_id
SolicitudesEnviadas(sol, usuario_id) ==
    {s.para : s \in {x \in sol : x.de = usuario_id /\ x.estado = "pendiente"}}

\* ids with a request in state 'pendiente' addressed to usuario_id
SolicitudesRecibidas(sol, usuario_id) ==
    {s.de : s \in {x \in sol : x.para = usuario_id /\ x.estado = "pendiente"}}

\* the pool never widened beyond levels 2..4
PoolSinAmpliar(g, us, usuario_id, limite) ==
    LET niveles == BfsNivelesDe(g, usuario_id, NivelMaximoMotor)
    IN Get(niveles, 2) \cup Get(niveles, 3) \cup Get(niveles, 4)

\* the candidate pool of obtener_recomendaciones before the pending
\* requests are taken out: levels 2..4, widened to every user when the
\* levels hold fewer than `limite` ids
PoolCandidatos(g, us, usuario_id, limite) ==
    LET amigos_directos == Get(g, usuario_id)
        niveles == BfsNivelesDe(g, usuario_id, NivelMaximoMotor)
        por_niveles == Get(niveles, 2) \cup Get(niveles, 3) \cup Get(niveles, 4)
        sin_conexion == ((us \ amigos_directos) \ {usuario_id}) \ por_niveles
    IN IF Cardinality(por_niveles) < limite
       THEN por_niveles \cup sin_conexion
       ELSE por_niveles

\* candidatos_ids with the received requests left in
CandidatosSinQuitarRecibidas(g, us, sol, usuario_id, limite) ==
    PoolCandidatos(g, us, usuario_id, limite)
        \ SolicitudesEnviadas(sol, usuario_id)

\* candidatos_ids once the pending requests are excluded
CandidatosIds(g, us, sol, usuario_id, limite) ==
    (PoolCandidatos(g, us, usuario_id, limite)
        \ SolicitudesEnviadas(sol, usuario_id))
        \ SolicitudesRecibidas(sol, usuario_id)

\* the (at most 3) names shown for the common friends; a username stands
\* for its user id, and an id with no User row is skipped.  The list is
\* taken in ascending order: which 3 are kept matters only for a pair with
\* more than 3 common friends, which needs 8 Amistad rows
AmigosComunNombres(us, amigos_comun) ==
    LET lista == SetToSeq(amigos_comun)
        primeros == Slice(lista, MaxNombres)
    IN {primeros[i] : i \in 1..Len(primeros)} \cap us

\* one entry of `recomendaciones`
Registro(g, us, usuario_id, candidato_id) ==
    LET datos == CalcularPuntuacionDe(g, usuario_id, candidato_id)
    IN [usuario |-> candidato_id,
        puntuacion |-> datos.puntuacion,
        num_amigos_comun |-> datos.num_amigos_comun,
        amigos_comun_nombres |-> AmigosComunNombres(us, datos.amigos_comun),
        distancia |-> datos.distancia]

RECURSIVE Puntuar(_, _, _, _)
\* the for loop over candidatos_ids, in the order `orden` the set yields
\* them; a candidate with no User row is skipped
Puntuar(g, us, usuario_id, orden) ==
    IF orden = <<>> THEN <<>>
    ELSE LET resto == Puntuar(g, us, usuario_id, Tail(orden))
         IN IF Head(orden) \in us
            THEN <<Registro(g, us, usuario_id, Head(orden))>> \o resto
            ELSE resto

\* insert r behind every entry whose puntuacion is at least r's
InsertarEstable(lista, r) ==
    LET antes == {i \in 1..Len(lista) : lista[i].puntuacion >= r.puntuacion}
        k == IF antes = {} THEN 0 ELSE CHOOSE i \in antes : \A j \in antes : j <= i
    IN SubSeq(lista, 1, k) \o <<r>> \o SubSeq(lista, k + 1, Len(lista))

RECURSIVE OrdenarDesde(_, _)
OrdenarDesde(hecho, pendientes) ==
    IF pendientes = <<>> THEN hecho
    ELSE OrdenarDesde(InsertarEstable(hecho, Head(pendientes)), Tail(pendientes))

\* the list left in the order the candidates were scored
SinOrdenar(lista) == lista

\* recomendaciones.sort(key=puntuacion, reverse=True): stable, highest first
OrdenarPorPuntuacion(lista) == OrdenarDesde(<<>>, lista)

\* obtener_recomendaciones returning the whole sorted list
RecomendacionesSinCortar(g, us, usuario_id, limite, orden) ==
    OrdenarPorPuntuacion(Puntuar(g, us, usuario_id, orden))

\* obtener_recomendaciones(usuario, limite), with the candidate set
\* iterated in the order `orden`
RecomendacionesDe(g, us, usuario_id, limite, orden) ==
    Slice(OrdenarPorPuntuacion(Puntuar(g, us, usuario_id, orden)), limite)

RECURSIVE SumaTamanos(_, _)
\* sum(len(v) for v in niveles.values()), over the keys in `claves`
SumaTamanos(niveles, claves) ==
    IF claves = {} THEN 0
    ELSE LET l == Min(claves)
         IN Cardinality(niveles[l]) + SumaTamanos(niveles, claves \ {l})

\* obtener_estadisticas_grafo(usuario)
EstadisticasDe(g, usuario_id) ==
    LET niveles == BfsNivelesDe(g, usuario_id, NivelMaximoMotor)
    IN [amigos_directos |-> Cardinality(Get(g, usuario_id)),
        nivel_2 |-> Cardinality(Get(niveles, 2)),
        nivel_3 |-> Cardinality(Get(niveles, 3)),
        nivel_4 |-> Cardinality(Get(niveles, 4)),
        total_usuarios |-> Cardinality(DOMAIN g),
        alcance |-> SumaTamanos(niveles, DOMAIN niveles)]

----------------------------------------------------------------------------
(* The store contents and the arguments the calls are tried on *)

RECURSIVE SubconjuntosHasta(_, _)
\* the subsets of S that hold at most k elements
SubconjuntosHasta(S, k) ==
    IF k = 0 \/ S = {} THEN {{}}
    ELSE LET x == CHOOSE y \in S : TRUE
             resto == S \ {x}
         IN SubconjuntosHasta(resto, k) \cup
            {T \cup {x} : T \in SubconjuntosHasta(resto, k - 1)}

\* Amistad rows <<usuario1_id, usuario2_id>> joining two users of U
FilasAmistad(U) == {f \in U \X U : f[1] < f[2]}

\* SolicitudAmistad: unique_together (de_usuario, para_usuario)
FilasSolicitud(U) ==
    {s \in [de : U, para : U, estado : Estados] : s.de # s.para}

TablasSolicitud(U) ==
    {S \in SubconjuntosHasta(FilasSolicitud(U), MaxSolicitudes) :
        \A s, t \in S : (s.de = t.de /\ s.para = t.para) => s = t}

Limites == (-2)..MaxLimite
Niveles == 0..MaxDistanciaDefault
Llamantes == IdsGrafo \cup {IdAusente}

\* The graphs and request tables drawn in Init are closed under renaming
\* the ids and every iteration order is tried, so the user the
\* recommendations are asked for is fixed: user 1, or a user with no row
Solicitantes == {1, IdAusente}

SinLlamada == [op |-> "ninguna"]

----------------------------------------------------------------------------
(* State machine *)

\* a MotorRecomendaciones freshly constructed over some store content
Init ==
    /\ usuarios = Ids
    /\ amistades \in SubconjuntosHasta(FilasAmistad(Ids), MaxAmistades)
    /\ solicitudes \in TablasSolicitud(Ids)
    /\ grafo = <<>>
    /\ construido = FALSE
    /\ llamada = SinLlamada

\* the `if not self._construido: self.construir_grafo()` of the queries
GrafoAlConsultar ==
    IF construido THEN grafo ELSE ConstruirGrafo(usuarios, amistades)

\* motor.obtener_recomendaciones(usuario, limite)
ObtenerRecomendaciones(u, limite) ==
    /\ llamada = SinLlamada
    /\ grafo' = TrasLecturas(ConstruirGrafo(usuarios, amistades), {u})
    /\ construido' = TRUE
    /\ \E candidatos_ids \in {CandidatosIds(grafo', usuarios, solicitudes, u, limite)} :
       \E orden \in Ordenes(candidatos_ids) :
           llamada' = [op |-> "obtener_recomendaciones",
                       usuario |-> u, limite |-> limite,
                       error |-> "ninguno",
                       ret |-> RecomendacionesDe(grafo', usuarios, u, limite, orden)]
    /\ UNCHANGED <<usuarios, amistades, solicitudes>>

\* motor.obtener_estadisticas_grafo(usuario)
ObtenerEstadisticasGrafo(u) ==
    /\ llamada = SinLlamada
    /\ grafo' = TrasLecturas(ConstruirGrafo(usuarios, amistades), {u})
    /\ construido' = TRUE
    /\ llamada' = [op |-> "obtener_estadisticas_grafo",
                   usuario |-> u,
                   error |-> "ninguno",
                   ret |-> EstadisticasDe(grafo', u)]
    /\ UNCHANGED <<usuarios, amistades, solicitudes>>

\* motor.grafo.bfs_niveles(usuario_id, nivel_maximo)
BfsNiveles(usuario_id, nivel_maximo) ==
    /\ llamada = SinLlamada
    /\ grafo' = TrasLecturas(GrafoAlConsultar, {usuario_id})
    /\ construido' = TRUE
    /\ llamada' = [op |-> "bfs_niveles",
                   usuario |-> usuario_id, nivel_maximo |-> nivel_maximo,
                   ret |-> BfsNivelesDe(grafo', usuario_id, nivel_maximo)]
    /\ UNCHANGED <<usuarios, amistades, solicitudes>>

\* motor.grafo.distancia_entre_usuarios(origen_id, destino_id, max_distancia)
DistanciaEntreUsuarios(origen_id, destino_id, max_distancia) ==
    /\ llamada = SinLlamada
    /\ grafo' = TrasLecturas(GrafoAlConsultar,
                             IF origen_id = destino_id THEN {} ELSE {origen_id})
    /\ construido' = TRUE
    /\ llamada' = [op |-> "distancia_entre_usuarios",
                   origen |-> origen_id, destino |-> destino_id,
                   max_distancia |-> max_distancia,
                   ret |-> DistanciaDe(grafo', origen_id, destino_id,
                                       max_distancia)]
    /\ UNCHANGED <<usuarios, amistades, solicitudes>>

\* motor.calcular_puntuacion(usuario_id, candidato_id)
CalcularPuntuacion(usuario_id, candidato_id) ==
    /\ llamada = SinLlamada
    /\ grafo' = TrasLecturas(GrafoAlConsultar, {usuario_id, candidato_id})
    /\ construido' = TRUE
    /\ llamada' = [op |-> "calcular_puntuacion",
                   usuario |-> usuario_id, candidato |-> candidato_id,
                   ret |-> CalcularPuntuacionDe(grafo', usuario_id,
                                                candidato_id)]
    /\ UNCHANGED <<usuarios, amistades, solicitudes>>

\* motor.grafo.construir_grafo()
ConstruirGrafoLlamada ==
    /\ llamada = SinLlamada
    /\ grafo' = Poblar(Vaciar(grafo), usuarios, amistades)
    /\ construido' = TRUE
    /\ llamada' = [op |-> "construir_grafo", anterior |-> grafo]
    /\ UNCHANGED <<usuarios, amistades, solicitudes>>

\* motor.grafo.obtener_amigos(usuario_id)
ObtenerAmigos(usuario_id) ==
    /\ llamada = SinLlamada
    /\ grafo' = TrasLecturas(GrafoAlConsultar, {usuario_id})
    /\ construido' = TRUE
    /\ llamada' = [op |-> "obtener_amigos",
                   usuario |-> usuario_id,
                   ret |-> ObtenerAmigosDe(grafo', usuario_id)]
    /\ UNCHANGED <<usuarios, amistades, solicitudes>>

\* motor.grafo.amigos_en_comun(usuario1_id, usuario2_id)
AmigosEnComun(usuario1_id, usuario2_id) ==
    /\ llamada = SinLlamada
    /\ grafo' = TrasLecturas(GrafoAlConsultar, {usuario1_id, usuario2_id})
    /\ construido' = TRUE
    /\ llamada' = [op |-> "amigos_en_comun",
                   usuario1 |-> usuario1_id, usuario2 |-> usuario2_id,
                   ret |-> AmigosEnComunDe(grafo', usuario1_id, usuario2_id)]
    /\ UNCHANGED <<usuarios, amistades, solicitudes>>

\* the synchronous caller takes the return value; the instance stays built
Retornar ==
    /\ llamada # SinLlamada
    /\ llamada' = SinLlamada
    /\ UNCHANGED <<usuarios, amistades, solicitudes, grafo, construido>>

\* the view has rendered its response: its MotorRecomendaciones is dropped
\* and the next request constructs a new one
FinPeticion ==
    /\ llamada # SinLlamada
    /\ llamada' = SinLlamada
    /\ grafo' = <<>>
    /\ construido' = FALSE
    /\ UNCHANGED <<usuarios, amistades, solicitudes>>

Next ==
    \/ \E u \in Solicitantes, limite \in Limites : ObtenerRecomendaciones(u, limite)
    \/ \E u \in Solicitantes : ObtenerEstadisticasGrafo(u)
    \/ FinPeticion

Spec == Init /\ [][Next]_vars

NextGrafo ==
    \/ \E o \in Llamantes, k \in Niveles : BfsNiveles(o, k)
    \/ \E o \in Llamantes, d \in Llamantes, k \in Niveles :
           DistanciaEntreUsuarios(o, d, k)
    \/ \E u \in Llamantes, c \in Llamantes : CalcularPuntuacion(u, c)
    \/ Retornar

InitGrafo ==
    /\ usuarios = IdsGrafo
    /\ amistades \in SubconjuntosHasta(FilasAmistad(IdsGrafo), MaxAmistades)
    /\ solicitudes = {}
    /\ grafo = <<>>
    /\ construido = FALSE
    /\ llamada = SinLlamada

SpecGrafo == InitGrafo /\ [][NextGrafo]_vars

----------------------------------------------------------------------------
(* GrafoSocial over any rows the Amistad table can hold: the table is
   unique on (usuario1, usuario2) and has no other constraint, so a pair
   may be stored in either order or in both, and a row may join a user to
   itself *)

IdsFilas == 1..NumUsuariosFilas
FilasCualesquiera(U) == U \X U
LlamantesFilas == IdsFilas \cup {IdAusente}

InitFilas ==
    /\ usuarios = IdsFilas
    /\ amistades \in SubconjuntosHasta(FilasCualesquiera(IdsFilas), MaxAmistades)
    /\ solicitudes = {}
    /\ grafo = <<>>
    /\ construido = FALSE
    /\ llamada = SinLlamada

NextFilas ==
    \/ ConstruirGrafoLlamada
    \/ \E u \in LlamantesFilas : ObtenerAmigos(u)
    \/ \E a \in LlamantesFilas, b \in LlamantesFilas : AmigosEnComun(a, b)
    \/ \E o \in LlamantesFilas, k \in Niveles : BfsNiveles(o, k)
    \/ \E o \in LlamantesFilas, d \in LlamantesFilas, k \in Niveles :
           DistanciaEntreUsuarios(o, d, k)
    \/ \E u \in LlamantesFilas : ObtenerEstadisticasGrafo(u)
    \/ Retornar

SpecFilas == InitFilas /\ [][NextFilas]_vars

----------------------------------------------------------------------------
(* bfs_niveles and distancia_entre_usuarios, one iteration of the while loop
   per step.  The frame of the running call is held in `llamada`: its queue,
   its `visitados` set, the levels found so far, and `encolados`, the list of
   every id ever appended to the queue *)

\* Amistad rows up to the order of the pair, self rows included
FilasConLazos(U) == {f \in U \X U : f[1] <= f[2]}

\* the neighbours of `actual`, without the test on visitados
TodosLosVecinos(g, actual, visitados) == Get(g, actual)

\* `if vecino not in visitados` over the neighbours of `actual`
NuevosVecinos(g, actual, visitados) == Get(g, actual) \ visitados

\* niveles[nivel].add(vecino) for every vecino of nuevos
NivelesCon(niveles, nivel, nuevos) ==
    IF nuevos = {} THEN niveles
    ELSE [l \in DOMAIN niveles \cup {nivel} |->
             IF l = nivel THEN Get(niveles, l) \cup nuevos ELSE niveles[l]]

\* cola.append((vecino, nivel)) for every vecino of lista, in order
Encolar(cola, lista, nivel) ==
    cola \o [i \in 1..Len(lista) |-> <<lista[i], nivel>>]

\* the elements of lista that come before x (all of them if x is not there)
Antes(lista, x) ==
    IF \E i \in 1..Len(lista) : lista[i] = x
    THEN SubSeq(lista, 1, (CHOOSE i \in 1..Len(lista) : lista[i] = x) - 1)
    ELSE lista

EnBucle(op) == llamada.op = op /\ llamada.fase = "bucle"

\* bfs_niveles up to its while loop
IniciarBfs(usuario_id, nivel_maximo) ==
    /\ llamada = SinLlamada
    /\ grafo' = TrasLecturas(GrafoAlConsultar, {usuario_id})
    /\ construido' = TRUE
    /\ llamada' = [op |-> "bfs_niveles", fase |-> "bucle",
                   usuario |-> usuario_id, nivel_maximo |-> nivel_maximo,
                   cola |-> <<<<usuario_id, 0>>>>,
                   visitados |-> {usuario_id},
                   niveles |-> <<>>,
                   encolados |-> <<usuario_id>>]
    /\ UNCHANGED <<usuarios, amistades, solicitudes>>

\* one iteration of `while cola:` in bfs_niveles
PasoBfs ==
    /\ EnBucle("bfs_niveles")
    /\ llamada.cola # <<>>
    /\ LET actual == Head(llamada.cola)[1]
           nivel == Head(llamada.cola)[2]
           resto == Tail(llamada.cola)
       IN IF nivel >= llamada.nivel_maximo
          THEN llamada' = [llamada EXCEPT !.cola = resto]
          ELSE \E lista \in Ordenes(NuevosVecinos(grafo, actual,
                                                  llamada.visitados)) :
                   llamada' =
                       [llamada EXCEPT
                           !.cola = Encolar(resto, lista, nivel + 1),
                           !.visitados = @ \cup {lista[i] : i \in 1..Len(lista)},
                           !.niveles = NivelesCon(@, nivel + 1,
                                           {lista[i] : i \in 1..Len(lista)}),
                           !.encolados = @ \o lista]
    /\ UNCHANGED <<usuarios, amistades, solicitudes, grafo, construido>>

\* the queue is empty: return dict(niveles)
SalirBfs ==
    /\ EnBucle("bfs_niveles")
    /\ llamada.cola = <<>>
    /\ llamada' = [op |-> "bfs_niveles", fase |-> "retorno",
                   usuario |-> llamada.usuario,
                   nivel_maximo |-> llamada.nivel_maximo,
                   encolados |-> llamada.encolados,
                   ret |-> llamada.niveles]
    /\ UNCHANGED <<usuarios, amistades, solicitudes, grafo, construido>>

\* distancia_entre_usuarios up to its while loop
IniciarDistancia(origen_id, destino_id, max_distancia) ==
    /\ llamada = SinLlamada
    /\ grafo' = TrasLecturas(GrafoAlConsultar,
                             IF origen_id = destino_id THEN {} ELSE {origen_id})
    /\ construido' = TRUE
    /\ llamada' =
           IF origen_id = destino_id
           THEN [op |-> "distancia_entre_usuarios", fase |-> "retorno",
                 origen |-> origen_id, destino |-> destino_id,
                 max_distancia |-> max_distancia,
                 encolados |-> <<>>,
                 ret |-> 0]
           ELSE [op |-> "distancia_entre_usuarios", fase |-> "bucle",
                 origen |-> origen_id, destino |-> destino_id,
                 max_distancia |-> max_distancia,
                 cola |-> <<<<origen_id, 0>>>>,
                 visitados |-> {origen_id},
                 encolados |-> <<origen_id>>]
    /\ UNCHANGED <<usuarios, amistades, solicitudes>>

\* one iteration of `while cola:` in distancia_entre_usuarios; the for loop
\* returns at the destination, after appending the new neighbours that the
\* set yielded before it
PasoDistancia ==
    /\ EnBucle("distancia_entre_usuarios")
    /\ llamada.cola # <<>>
    /\ LET actual == Head(llamada.cola)[1]
           distancia == Head(llamada.cola)[2]
           resto == Tail(llamada.cola)
       IN IF distancia >= llamada.max_distancia
          THEN llamada' = [llamada EXCEPT !.cola = resto]
          ELSE \E orden \in Ordenes(Get(grafo, actual)) :
                   LET lista == SelectSeq(Antes(orden, llamada.destino),
                                   LAMBDA v : v \in NuevosVecinos(grafo, actual,
                                                       llamada.visitados))
                   IN IF llamada.destino \in Get(grafo, actual)
                      THEN llamada' =
                               [op |-> "distancia_entre_usuarios",
                                fase |-> "retorno",
                                origen |-> llamada.origen,
                                destino |-> llamada.destino,
                                max_distancia |-> llamada.max_distancia,
                                encolados |-> llamada.encolados \o lista,
                                ret |-> distancia + 1]
                      ELSE llamada' =
                               [llamada EXCEPT
                                   !.cola = Encolar(resto, lista, distancia + 1),
                                   !.visitados =
                                       @ \cup {lista[i] : i \in 1..Len(lista)},
                                   !.encolados = @ \o lista]
    /\ UNCHANGED <<usuarios, amistades, solicitudes, grafo, construido>>

\* the queue is empty: return -1
SalirDistancia ==
    /\ EnBucle("distancia_entre_usuarios")
    /\ llamada.cola = <<>>
    /\ llamada' = [op |-> "distancia_entre_usuarios", fase |-> "retorno",
                   origen |-> llamada.origen, destino |-> llamada.destino,
                   max_distancia |-> llamada.max_distancia,
                   encolados |-> llamada.encolados,
                   ret |-> SinConexion]
    /\ UNCHANGED <<usuarios, amistades, solicitudes, grafo, construido>>

\* the caller takes the value a finished traversal returned
RetornarRecorrido ==
    /\ llamada # SinLlamada
    /\ llamada.fase = "retorno"
    /\ Retornar

InitPasos ==
    /\ usuarios = IdsFilas
    /\ amistades \in SubconjuntosHasta(FilasConLazos(IdsFilas), MaxAmistades)
    /\ solicitudes = {}
    /\ grafo = <<>>
    /\ construido = FALSE
    /\ llamada = SinLlamada

\* the steps of a traversal that has started
Recorrer == PasoBfs \/ SalirBfs \/ PasoDistancia \/ SalirDistancia

NextPasos ==
    \/ \E o \in LlamantesFilas, k \in Niveles : IniciarBfs(o, k)
    \/ \E o \in LlamantesFilas, d \in LlamantesFilas, k \in Niveles :
           IniciarDistancia(o, d, k)
    \/ PasoBfs
    \/ SalirBfs
    \/ PasoDistancia
    \/ SalirDistancia
    \/ RetornarRecorrido

\* the interpreter keeps running a call that has started: a traversal that
\* can take a step eventually takes one
SpecPasos == InitPasos /\ [][NextPasos]_vars /\ WF_vars(Recorrer)

----------------------------------------------------------------------------
(* The requests that change the store.  Each view's writes are taken at one
   instant *)

IdsVistas == 1..NumUsuariosVistas

\* Amistad.son_amigos(a, b) on the rows am
SonAmigosEn(am, a, b) == <<a, b>> \in am \/ <<b, a>> \in am

\* a pending request between a and b, in either direction, in the table sol
HayPendienteEn(sol, a, b) ==
    \E s \in sol :
        /\ s.estado = "pendiente"
        /\ (s.de = a /\ s.para = b) \/ (s.de = b /\ s.para = a)

\* enviar_solicitud_view, when it creates the request: the table is unique
\* on (de_usuario, para_usuario), so no row may already hold the pair
EnviarSolicitud(de, para) ==
    /\ de \in usuarios /\ para \in usuarios
    /\ para # de
    /\ ~SonAmigosEn(amistades, de, para)
    /\ ~HayPendienteEn(solicitudes, de, para)
    /\ ~\E s \in solicitudes : s.de = de /\ s.para = para
    /\ Cardinality(solicitudes) < MaxSolicitudes
    /\ solicitudes' = solicitudes \cup
                          {[de |-> de, para |-> para, estado |-> "pendiente"]}
    /\ UNCHANGED <<usuarios, amistades>>

\* aceptar_solicitud_view: solicitud.aceptar()
AceptarSolicitud(s) ==
    /\ s \in solicitudes
    /\ s.estado = "pendiente"
    /\ Cardinality(amistades \cup {<<s.de, s.para>>}) <= MaxAmistades
    /\ solicitudes' = (solicitudes \ {s}) \cup {[s EXCEPT !.estado = "aceptada"]}
    /\ amistades' = amistades \cup {<<s.de, s.para>>}
    /\ UNCHANGED usuarios

\* rechazar_solicitud_view: solicitud.rechazar()
RechazarSolicitud(s) ==
    /\ s \in solicitudes
    /\ s.estado = "pendiente"
    /\ solicitudes' = (solicitudes \ {s}) \cup {[s EXCEPT !.estado = "rechazada"]}
    /\ UNCHANGED <<usuarios, amistades>>

\* cancelar_solicitud_view: solicitud.delete()
CancelarSolicitud(s) ==
    /\ s \in solicitudes
    /\ s.estado = "pendiente"
    /\ solicitudes' = solicitudes \ {s}
    /\ UNCHANGED <<usuarios, amistades>>

\* eliminar_amigo_view: the first row joining the two users is deleted
EliminarAmigo(u, amigo) ==
    /\ u \in usuarios /\ amigo \in usuarios
    /\ \E f \in amistades \cap {<<u, amigo>>, <<amigo, u>>} :
           amistades' = amistades \ {f}
    /\ UNCHANGED <<usuarios, solicitudes>>

\* a user is deleted (admin site); on_delete=CASCADE deletes the user's rows
EliminarUsuario(x) ==
    /\ x \in usuarios
    /\ usuarios' = usuarios \ {x}
    /\ amistades' = {f \in amistades : f[1] # x /\ f[2] # x}
    /\ solicitudes' = {s \in solicitudes : s.de # x /\ s.para # x}

\* one request that changes the store
CambioDeAlmacen ==
    \/ \E de \in IdsVistas, para \in IdsVistas : EnviarSolicitud(de, para)
    \/ \E s \in solicitudes : AceptarSolicitud(s)
    \/ \E s \in solicitudes : RechazarSolicitud(s)
    \/ \E s \in solicitudes : CancelarSolicitud(s)
    \/ \E u \in IdsVistas, amigo \in IdsVistas : EliminarAmigo(u, amigo)
    \/ \E x \in IdsVistas : EliminarUsuario(x)

\* the store as one value: what a query made at this instant reads
Almacen == [us |-> usuarios, am |-> amistades, sol |-> solicitudes]

EnFase(fase) ==
    /\ llamada.op = "obtener_recomendaciones"
    /\ llamada.fase = fase

\* obtener_recomendaciones enters construir_grafo: clear(), then the loop
\* over User.objects.all().  `instantes` lists the store contents from the
\* start of the call on, one entry per change
IniciarRecomendaciones(u, limite) ==
    /\ llamada = SinLlamada
    /\ grafo' = Poblar(Vaciar(grafo), usuarios, {})
    /\ llamada' = [op |-> "obtener_recomendaciones", fase |-> "amistades",
                   usuario |-> u, limite |-> limite, error |-> "ninguno",
                   excepcion |-> "ninguna",
                   candidatos_ids |-> {}, solicitudes_enviadas |-> {},
                   orden |-> <<>>, recomendaciones |-> <<>>,
                   candidato |-> 0, amigos |-> <<>>, nombres |-> {},
                   omitidos |-> {},
                   instantes |-> <<Almacen>>]
    /\ UNCHANGED <<usuarios, amistades, solicitudes, construido>>

\* the loop over Amistad.objects.all() ends construir_grafo; then
\* obtener_amigos, bfs_niveles and the candidates of levels 2, 3 and 4
LeerAmistades ==
    /\ EnFase("amistades")
    /\ grafo' = TrasLecturas(Poblar(grafo, {}, amistades), {llamada.usuario})
    /\ construido' = TRUE
    /\ LET niveles == BfsNivelesDe(grafo', llamada.usuario, NivelMaximoMotor)
           por_niveles == Get(niveles, 2) \cup Get(niveles, 3) \cup Get(niveles, 4)
       IN llamada' = [llamada EXCEPT
                         !.candidatos_ids = por_niveles,
                         !.fase = IF Cardinality(por_niveles) < llamada.limite
                                  THEN "todos" ELSE "enviadas"]
    /\ UNCHANGED <<usuarios, amistades, solicitudes>>

\* the pool is widened: User.objects.values_list('id', flat=True)
LeerTodos ==
    /\ EnFase("todos")
    /\ LET sin_conexion ==
               ((usuarios \ ObtenerAmigosDe(grafo, llamada.usuario))
                    \ {llamada.usuario}) \ llamada.candidatos_ids
       IN llamada' = [llamada EXCEPT
                         !.candidatos_ids = @ \cup sin_conexion,
                         !.fase = "enviadas"]
    /\ UNCHANGED <<usuarios, amistades, solicitudes, grafo, construido>>

\* the query for the pending requests the user has sent
LeerEnviadas ==
    /\ EnFase("enviadas")
    /\ llamada' = [llamada EXCEPT
                      !.solicitudes_enviadas =
                          SolicitudesEnviadas(solicitudes, llamada.usuario),
                      !.fase = "recibidas"]
    /\ UNCHANGED <<usuarios, amistades, solicitudes, grafo, construido>>

\* the query for the pending requests the user has received; both sets are
\* taken out of the candidates, and the for loop starts iterating the set
LeerRecibidas ==
    /\ EnFase("recibidas")
    /\ \E candidatos_ids \in
              {(llamada.candidatos_ids \ llamada.solicitudes_enviadas)
                   \ SolicitudesRecibidas(solicitudes, llamada.usuario)} :
       \E orden \in Ordenes(candidatos_ids) :
           llamada' = [llamada EXCEPT
                          !.candidatos_ids = candidatos_ids,
                          !.orden = orden,
                          !.fase = "candidatos"]
    /\ UNCHANGED <<usuarios, amistades, solicitudes, grafo, construido>>

\* recomendaciones.append({...}) for the candidate in hand
ConRegistro(f) ==
    LET datos == CalcularPuntuacionDe(grafo, f.usuario, f.candidato)
    IN [f EXCEPT
           !.recomendaciones =
               Append(@, [usuario |-> f.candidato,
                          puntuacion |-> datos.puntuacion,
                          num_amigos_comun |-> datos.num_amigos_comun,
                          amigos_comun_nombres |-> f.nombres,
                          distancia |-> datos.distancia]),
           !.fase = "candidatos"]

\* User.objects.get(id=candidato_id) and calcular_puntuacion for the next
\* candidate; User.DoesNotExist reaches the outer handler: continue
PasoCandidato ==
    /\ EnFase("candidatos")
    /\ llamada.orden # <<>>
    /\ LET candidato_id == Head(llamada.orden)
           f == [llamada EXCEPT !.orden = Tail(@),
                                !.candidato = candidato_id,
                                !.nombres = {}]
           datos == CalcularPuntuacionDe(grafo, llamada.usuario, candidato_id)
           amigos == Slice(SetToSeq(datos.amigos_comun), MaxNombres)
       IN llamada' =
              IF candidato_id \notin usuarios THEN [f EXCEPT !.candidato = 0]
              ELSE IF amigos = <<>> THEN ConRegistro(f)
              ELSE [f EXCEPT !.amigos = amigos, !.fase = "nombres"]
    /\ UNCHANGED <<usuarios, amistades, solicitudes, grafo, construido>>

\* the inner try of the loop over the names, with the exception not handled
ResolverNombreSinCapturar(f, amigo_id, us) ==
    IF amigo_id \in us
    THEN [f EXCEPT !.nombres = @ \cup {amigo_id}]
    ELSE [f EXCEPT !.omitidos = @ \cup {<<f.candidato, amigo_id>>},
                   !.excepcion = "DoesNotExist"]

\* the inner try of the loop over the names: User.objects.get(id=amigo_id),
\* append the name; except User.DoesNotExist: pass
ResolverNombre(f, amigo_id, us) ==
    IF amigo_id \in us
    THEN [f EXCEPT !.nombres = @ \cup {amigo_id}]
    ELSE [f EXCEPT !.omitidos = @ \cup {<<f.candidato, amigo_id>>}]

\* one iteration of the loop over the (at most three) mutual friends; an
\* exception that leaves it reaches the outer handler: continue
PasoNombre ==
    /\ EnFase("nombres")
    /\ LET f == ResolverNombre([llamada EXCEPT !.amigos = Tail(@)],
                               Head(llamada.amigos), usuarios)
       IN llamada' =
              IF f.excepcion # "ninguna"
              THEN [f EXCEPT !.excepcion = "ninguna", !.amigos = <<>>,
                             !.fase = "candidatos"]
              ELSE IF f.amigos = <<>> THEN ConRegistro(f)
              ELSE f
    /\ UNCHANGED <<usuarios, amistades, solicitudes, grafo, construido>>

\* the for loop is over: sort, and return recomendaciones[:limite]
OrdenarYCortar ==
    /\ EnFase("candidatos")
    /\ llamada.orden = <<>>
    /\ llamada' = [op |-> "obtener_recomendaciones", fase |-> "retorno",
                   usuario |-> llamada.usuario, limite |-> llamada.limite,
                   error |-> llamada.error,
                   recomendaciones |-> llamada.recomendaciones,
                   omitidos |-> llamada.omitidos,
                   instantes |-> llamada.instantes,
                   ret |-> Slice(OrdenarPorPuntuacion(llamada.recomendaciones),
                                 llamada.limite)]
    /\ UNCHANGED <<usuarios, amistades, solicitudes, grafo, construido>>

EnCurso ==
    /\ llamada.op = "obtener_recomendaciones"
    /\ llamada.fase # "retorno"

\* another request changes the store: between two calls, or between two
\* queries of the running obtener_recomendaciones
OtraPeticion ==
    /\ CambioDeAlmacen
    /\ \/ /\ llamada = SinLlamada
          /\ UNCHANGED llamada
       \/ /\ EnCurso
          /\ Len(llamada.instantes) <= MaxCambios
          /\ llamada' = [llamada EXCEPT !.instantes = Append(@, Almacen')]
    /\ UNCHANGED <<grafo, construido>>

\* the caller takes what a finished call returned; the instance is kept
RetornarVista ==
    /\ llamada # SinLlamada
    /\ IF llamada.op = "construir_grafo" THEN TRUE
       ELSE llamada.fase = "retorno"
    /\ Retornar

InitVistas ==
    /\ usuarios = IdsVistas
    /\ amistades \in SubconjuntosHasta(FilasAmistad(IdsVistas), MaxAmistades)
    /\ solicitudes \in TablasSolicitud(IdsVistas)
    /\ grafo = <<>>
    /\ construido = FALSE
    /\ llamada = SinLlamada

SolicitantesVistas == {1}
LimitesPasos == 1..MaxLimite

NextVistas ==
    \/ OtraPeticion
    \/ ConstruirGrafoLlamada
    \/ \E u \in SolicitantesVistas, limite \in LimitesPasos :
           IniciarRecomendaciones(u, limite)
    \/ LeerAmistades
    \/ LeerTodos
    \/ LeerEnviadas
    \/ LeerRecibidas
    \/ PasoCandidato
    \/ PasoNombre
    \/ OrdenarYCortar
    \/ RetornarVista

SpecVistas == InitVistas /\ [][NextVistas]_vars

----------------------------------------------------------------------------
(* The friendship requests from an empty store on: every request is one of
   the views, and `llamada` holds what enviar_solicitud_view did *)

IdsSolicitudes == 1..NumUsuariosSolicitudes

\* the branch enviar_solicitud_view takes for a request of `de` to `para`;
\* SolicitudAmistad.objects.create raises IntegrityError when a row already
\* holds (de_usuario, para_usuario), whatever its estado (unique_together)
ResultadoEnviar(am, sol, de, para) ==
    IF para = de THEN "mismo_usuario"
    ELSE IF SonAmigosEn(am, de, para) THEN "ya_amigos"
    ELSE IF HayPendienteEn(sol, de, para) THEN "solicitud_existente"
    ELSE IF \E s \in sol : s.de = de /\ s.para = para THEN "IntegrityError"
    ELSE "creada"

\* enviar_solicitud_view(request of `de`, user_id = para)
EnviarSolicitudVista(de, para) ==
    /\ llamada = SinLlamada
    /\ de \in usuarios /\ para \in usuarios
    /\ LET resultado == ResultadoEnviar(amistades, solicitudes, de, para)
       IN /\ solicitudes' =
                 IF resultado = "creada"
                 THEN solicitudes \cup
                          {[de |-> de, para |-> para, estado |-> "pendiente"]}
                 ELSE solicitudes
          /\ llamada' = [op |-> "enviar_solicitud", de |-> de, para |-> para,
                         resultado |-> resultado]
    /\ UNCHANGED <<usuarios, amistades, grafo, construido>>

\* the other views that change the requests and the friendships
ResponderSolicitud ==
    /\ llamada = SinLlamada
    /\ \/ \E s \in solicitudes : AceptarSolicitud(s)
       \/ \E s \in solicitudes : RechazarSolicitud(s)
       \/ \E s \in solicitudes : CancelarSolicitud(s)
       \/ \E u \in IdsSolicitudes, amigo \in IdsSolicitudes :
              EliminarAmigo(u, amigo)
    /\ UNCHANGED <<grafo, construido, llamada>>

\* the response of enviar_solicitud_view has been sent
RetornarEnvio ==
    /\ llamada.op = "enviar_solicitud"
    /\ Retornar

InitSolicitudes ==
    /\ usuarios = IdsSolicitudes
    /\ amistades = {}
    /\ solicitudes = {}
    /\ grafo = <<>>
    /\ construido = FALSE
    /\ llamada = SinLlamada

NextSolicitudes ==
    \/ \E de \in IdsSolicitudes, para \in IdsSolicitudes :
           EnviarSolicitudVista(de, para)
    \/ ResponderSolicitud
    \/ RetornarEnvio

SpecSolicitudes == InitSolicitudes /\ [][NextSolicitudes]_vars

----------------------------------------------------------------------------
(* The seven-user scenario: the first seven users crear_datos_prueba.py
   creates, with the Amistad rows it creates between them *)

\* ids in the order crear_usuarios_prueba() creates the users
Escenario ==
    [ana |-> 1, carlos |-> 2, maria |-> 3, juan |-> 4,
     sofia |-> 5, diego |-> 6, lucia |-> 7]

UsuariosEscenario == {Escenario[n] : n \in DOMAIN Escenario}

\* amistades_data, restricted to the seven users
AmistadesEscenario ==
    {<<Escenario.ana, Escenario.carlos>>, <<Escenario.ana, Escenario.maria>>,
     <<Escenario.carlos, Escenario.juan>>, <<Escenario.carlos, Escenario.diego>>,
     <<Escenario.maria, Escenario.juan>>, <<Escenario.maria, Escenario.sofia>>,
     <<Escenario.diego, Escenario.lucia>>}

\* the limits the views and demostrar_grafo() ask for
LimiteDashboard == 5
LimiteRecomendaciones == 20
LimitesVistas == {LimiteDashboard, LimiteRecomendaciones}

InitEscenario ==
    /\ usuarios = UsuariosEscenario
    /\ amistades = AmistadesEscenario
    /\ solicitudes = {}
    /\ grafo = <<>>
    /\ construido = FALSE
    /\ llamada = SinLlamada

NextEscenario ==
    \/ \E o \in UsuariosEscenario, k \in Niveles : BfsNiveles(o, k)
    \/ \E o \in UsuariosEscenario, d \in UsuariosEscenario, k \in Niveles :
           DistanciaEntreUsuarios(o, d, k)
    \/ \E u \in UsuariosEscenario, limite \in LimitesVistas :
           ObtenerRecomendaciones(u, limite)
    \/ \E u \in UsuariosEscenario : ObtenerEstadisticasGrafo(u)
    \/ Retornar
    \/ FinPeticion

SpecEscenario == InitEscenario /\ [][NextEscenario]_vars

----------------------------------------------------------------------------
(* Graph distance, defined from the adjacency alone *)

RECURSIVE Bola(_, _, _)
\* the ids joined to origen by a path of at most n edges
Bola(g, origen, n) ==
    IF n = 0 THEN {origen}
    ELSE LET b == Bola(g, origen, n - 1)
         IN b \cup UNION {Get(g, x) : x \in b}

\* the ids whose shortest path from origen has exactly n edges (n >= 1)
Capa(g, origen, n) == Bola(g, origen, n) \ Bola(g, origen, n - 1)

----------------------------------------------------------------------------
(* Claims on GrafoSocial and calcular_puntuacion, under SpecGrafo *)

\* C4: for a pair (user, candidate) with m common neighbours and distance
\* d >= 2, calcular_puntuacion returns puntuacion = 10*m + (5 if d = 2,
\* 2 if d = 3, 1 if d > 3), num_amigos_comun = m and distancia = d.
C4_FormulaPuntuacion ==
    llamada.op = "calcular_puntuacion" =>
        LET m == Cardinality(Get(grafo, llamada.usuario) \cap
                             Get(grafo, llamada.candidato))
            d == DistanciaDe(grafo, llamada.usuario, llamada.candidato, 5)
        IN d >= 2 =>
            /\ llamada.ret.puntuacion =
                   10 * m + (IF d = 2 THEN 5 ELSE IF d = 3 THEN 2 ELSE 1)
            /\ llamada.ret.num_amigos_comun = m
            /\ llamada.ret.distancia = d

\* a candidate four edges away was scored (the d > 3 branch)
C4_Witness ==
    /\ llamada.op = "calcular_puntuacion"
    /\ llamada.ret.distancia = 4
    /\ llamada.ret.puntuacion = 1

\* C5 as stated: an unreachable candidate gets the +1 bonus, score 10*m + 1.
C5_SinConexionSumaUno ==
    (llamada.op = "calcular_puntuacion" /\ llamada.ret.distancia = -1) =>
        llamada.ret.puntuacion =
            10 * Cardinality(Get(grafo, llamada.usuario) \cap
                             Get(grafo, llamada.candidato)) + 1

\* C5 amended: for an unreachable candidate the distance is reported as -1
\* and no distance bonus is added, so the score is 10*m.
C5_SinConexionSinBono ==
    (llamada.op = "calcular_puntuacion" /\ llamada.ret.distancia = -1) =>
        llamada.ret.puntuacion =
            10 * Cardinality(Get(grafo, llamada.usuario) \cap
                             Get(grafo, llamada.candidato))

\* two existing users with no path between them were scored
C5_Witness ==
    /\ llamada.op = "calcular_puntuacion"
    /\ llamada.usuario \in usuarios
    /\ llamada.candidato \in usuarios
    /\ llamada.candidato \notin Bola(grafo, llamada.usuario, NumUsuariosGrafo)
    /\ llamada.ret.distancia = -1

\* C6: bfs_niveles(origin, k), k >= 0, returns pairwise disjoint level sets;
\* level L (1 <= L <= k) is exactly the set of nodes at shortest-path
\* length L; no node farther than k appears; the origin is in no level.
C6_NivelesSonCapas ==
    (llamada.op = "bfs_niveles" /\ llamada.nivel_maximo >= 0) =>
        LET niveles == llamada.ret
            origen == llamada.usuario
            k == llamada.nivel_maximo
        IN /\ DOMAIN niveles \subseteq 1..k
           /\ \A l \in 1..k : Get(niveles, l) = Capa(grafo, origen, l)
           /\ \A l1, l2 \in DOMAIN niveles :
                  l1 # l2 => niveles[l1] \cap niveles[l2] = {}
           /\ \A l \in DOMAIN niveles :
                  /\ origen \notin niveles[l]
                  /\ niveles[l] \subseteq Bola(grafo, origen, k)

\* a search that filled two levels and left a farther node out
C6_Witness ==
    /\ llamada.op = "bfs_niveles"
    /\ llamada.nivel_maximo = 2
    /\ Get(llamada.ret, 1) # {}
    /\ Get(llamada.ret, 2) # {}
    /\ Capa(grafo, llamada.usuario, 3) # {}

\* C7: distancia_entre_usuarios(origin, X, max) is 0 when X = origin;
\* otherwise it is the level at which X appears in bfs_niveles(origin, max),
\* and it is -1 exactly when X appears in no level.
C7_DistanciaEsNivel ==
    llamada.op = "distancia_entre_usuarios" =>
        LET niveles == BfsNivelesDe(grafo, llamada.origen, llamada.max_distancia)
            x == llamada.destino
            en_nivel == {l \in DOMAIN niveles : x \in niveles[l]}
        IN IF x = llamada.origen
           THEN llamada.ret = 0
           ELSE /\ \A l \in en_nivel : llamada.ret = l
                /\ (llamada.ret = -1) <=> (en_nivel = {})
                /\ llamada.ret # -1 => llamada.ret \in en_nivel

\* a destination found exactly at the bound, three edges away
C7_Witness ==
    /\ llamada.op = "distancia_entre_usuarios"
    /\ llamada.max_distancia = 3
    /\ llamada.ret = 3

----------------------------------------------------------------------------
(* Claims on obtener_recomendaciones and obtener_estadisticas_grafo,        *)
(* under Spec; the store is read directly, not through the adjacency        *)

\* an Amistad row joins a and b, in either order
SonAmigos(a, b) == <<a, b>> \in amistades \/ <<b, a>> \in amistades

\* a request in state 'pendiente' exists between a and b, in either direction
HayPendiente(a, b) ==
    \E s \in solicitudes :
        /\ s.estado = "pendiente"
        /\ \/ (s.de = a /\ s.para = b)
           \/ (s.de = b /\ s.para = a)

\* a user the exclusion rules leave open to the user u
Elegible(u, x) ==
    /\ x \in usuarios
    /\ x # u
    /\ ~SonAmigos(u, x)
    /\ ~HayPendiente(u, x)

EsRecomendacion == llamada.op = "obtener_recomendaciones"

\* the ids of the returned records
Recomendados == {llamada.ret[i].usuario : i \in 1..Len(llamada.ret)}

\* the ids that were scored by the call
Puntuados ==
    CandidatosIds(grafo, usuarios, solicitudes, llamada.usuario, llamada.limite)
        \cap usuarios

\* C1: the list returned by obtener_recomendaciones(u, limit) never holds u,
\* a direct friend of u, or a user with a pending request from or to u.
C1_Exclusiones ==
    EsRecomendacion =>
        \A x \in Recomendados :
            /\ x # llamada.usuario
            /\ ~SonAmigos(llamada.usuario, x)
            /\ ~HayPendiente(llamada.usuario, x)

\* a call that returned records while the user had a direct friend and a
\* friend of a friend with a pending request addressed to the user
C1_Witness ==
    /\ EsRecomendacion
    /\ llamada.ret # <<>>
    /\ \E f \in usuarios : SonAmigos(llamada.usuario, f)
    /\ \E s \in solicitudes :
           /\ s.estado = "pendiente"
           /\ s.para = llamada.usuario
           /\ s.de \in Capa(grafo, llamada.usuario, 2)

\* C2: for limit >= 0, obtener_recomendaciones(u, limit) returns at most
\* `limit` records.
C2_TamanoAcotado ==
    (EsRecomendacion /\ llamada.limite >= 0) =>
        Len(llamada.ret) <= llamada.limite

\* more candidates were scored than the limit, and the list was cut to it
C2_Witness ==
    /\ EsRecomendacion
    /\ llamada.limite >= 1
    /\ Cardinality(Puntuados) > llamada.limite
    /\ Len(llamada.ret) = llamada.limite

\* C3 as stated: the list is empty whenever limit <= 0, negative limits
\* included.
C3_VaciaSiLimiteNoPositivo ==
    (EsRecomendacion /\ llamada.limite <= 0) => llamada.ret = <<>>

\* C8: for limit >= 0 the list is in non-increasing order of puntuacion and
\* no scored candidate left out has a strictly higher puntuacion than a
\* candidate in the list.
C8_OrdenYSeleccion ==
    (EsRecomendacion /\ llamada.limite >= 0) =>
        /\ \A i \in 1..Len(llamada.ret) : \A j \in 1..Len(llamada.ret) :
               i < j => llamada.ret[i].puntuacion >= llamada.ret[j].puntuacion
        /\ \A c \in Puntuados \ Recomendados :
               \A i \in 1..Len(llamada.ret) :
                   CalcularPuntuacionDe(grafo, llamada.usuario, c).puntuacion
                       <= llamada.ret[i].puntuacion

\* a list cut to its limit that left out a candidate scoring strictly
\* less than the record it kept
C8_Witness ==
    /\ EsRecomendacion
    /\ llamada.limite = 1
    /\ Len(llamada.ret) = 1
    /\ llamada.ret[1].puntuacion > 0
    /\ \E c \in Puntuados \ Recomendados :
           CalcularPuntuacionDe(grafo, llamada.usuario, c).puntuacion
               < llamada.ret[1].puntuacion

\* C9 as stated: with limit >= 1, a list shorter than `limit` holds every
\* existing user who is not u, not a friend of u and has no pending request
\* with u.
C9_SinHambre ==
    (EsRecomendacion /\ llamada.limite >= 1
        /\ Len(llamada.ret) < llamada.limite) =>
        \A x \in usuarios : Elegible(llamada.usuario, x) => x \in Recomendados

\* C10 as stated: a call for a user id with no row reports a not-found
\* failure before construir_grafo runs.
C10_AusenteEsNoEncontrado ==
    (llamada.op \in {"obtener_recomendaciones", "obtener_estadisticas_grafo"}
        /\ llamada.usuario \notin usuarios) =>
        /\ llamada.error = "no_encontrado"
        /\ ~construido

\* C10 amended: a call for a user id with no row reports no failure;
\* construir_grafo and the traversal run; obtener_recomendaciones returns
\* min(limit, number of users) records for limit >= 0, each an existing user
\* with puntuacion 0, num_amigos_comun 0 and distancia -1;
\* obtener_estadisticas_grafo returns 0 for every level count and for
\* alcance, and total_usuarios is the number of users.
C10_AusenteSinFallo ==
    (llamada.op \in {"obtener_recomendaciones", "obtener_estadisticas_grafo"}
        /\ llamada.usuario \notin usuarios) =>
        /\ llamada.error = "ninguno"
        /\ construido
        /\ grafo = ConstruirGrafo(usuarios, amistades)
        /\ llamada.op = "obtener_recomendaciones" =>
               /\ \A i \in 1..Len(llamada.ret) :
                      /\ llamada.ret[i].usuario \in usuarios
                      /\ llamada.ret[i].puntuacion = 0
                      /\ llamada.ret[i].num_amigos_comun = 0
                      /\ llamada.ret[i].distancia = -1
               /\ llamada.limite >= 0 =>
                      Len(llamada.ret) =
                          IF llamada.limite < Cardinality(usuarios)
                          THEN llamada.limite ELSE Cardinality(usuarios)
        /\ llamada.op = "obtener_estadisticas_grafo" =>
               llamada.ret = [amigos_directos |-> 0, nivel_2 |-> 0,
                              nivel_3 |-> 0, nivel_4 |-> 0,
                              total_usuarios |-> Cardinality(usuarios),
                              alcance |-> 0]

\* recommendations were returned to a user with no row in the User table
C10_Witness ==
    /\ EsRecomendacion
    /\ llamada.usuario \notin usuarios
    /\ llamada.limite >= 1
    /\ Len(llamada.ret) = llamada.limite

----------------------------------------------------------------------------
(* Claims on the seven-user scenario, under SpecEscenario *)

\* C11 as stated: distancia_entre_usuarios(sofia, lucia, 5) returns 4
C11_SofiaLuciaCuatro ==
    (/\ llamada.op = "distancia_entre_usuarios"
     /\ llamada.origen = Escenario.sofia
     /\ llamada.destino = Escenario.lucia
     /\ llamada.max_distancia = MaxDistanciaDefault)
    => llamada.ret = 4

\* C11, amended: on the scenario graph distancia_entre_usuarios(sofia, lucia, 5)
\* returns 5, the length of the shortest path (maria and carlos are not
\* joined: every path from sofia to lucia passes maria, then ana or juan,
\* then carlos, then diego), and this is the number of levels bfs_niveles
\* needs to reach lucia from sofia
C11_SofiaLuciaCinco ==
    /\ (/\ llamada.op = "distancia_entre_usuarios"
         /\ llamada.origen = Escenario.sofia
         /\ llamada.destino = Escenario.lucia
         /\ llamada.max_distancia = MaxDistanciaDefault)
        => llamada.ret = 5
    /\ (/\ llamada.op = "bfs_niveles"
         /\ llamada.usuario = Escenario.sofia)
        => \A l \in DOMAIN llamada.ret :
               Escenario.lucia \in llamada.ret[l] <=> l = 5

C11_Witness ==
    /\ llamada.op = "distancia_entre_usuarios"
    /\ llamada.origen = Escenario.sofia
    /\ llamada.destino = Escenario.lucia
    /\ llamada.max_distancia = MaxDistanciaDefault
    /\ llamada.ret = 5
    /\ Escenario.maria \notin Get(grafo, Escenario.carlos)

\* C19 as stated: every returned record whose candidate is joined to the user
\* by some path reports a distancia of 2, 3 or 4
C19_ConectadoEntreDosYCuatro ==
    (llamada.op = "obtener_recomendaciones") =>
        \A i \in 1..Len(llamada.ret) :
            (llamada.ret[i].usuario \in
                 Bola(grafo, llamada.usuario, Cardinality(DOMAIN grafo)))
            => llamada.ret[i].distancia \in {2, 3, 4}

----------------------------------------------------------------------------
(* Claims on GrafoSocial over any Amistad rows, under SpecFilas *)

\* C12: once construir_grafo() has run, for all ids A and B, B is in grafo[A]
\* if and only if A is in grafo[B], whatever rows the Amistad table holds (a
\* pair stored in one order only, in both orders, or a row joining a user to
\* itself)
C12_Simetria ==
    construido =>
        \A A \in LlamantesFilas, B \in LlamantesFilas :
            B \in Get(grafo, A) <=> A \in Get(grafo, B)

C12_Witness ==
    /\ llamada.op = "construir_grafo"
    /\ \E A \in IdsFilas, B \in IdsFilas :
          /\ A > B
          /\ <<A, B>> \in amistades
          /\ <<B, A>> \notin amistades
          /\ A \in grafo[B]
          /\ B \in grafo[A]

\* C13 as stated: once construir_grafo() has run, no id A is a member of its
\* own neighbour set grafo[A], for any rows the Amistad table can hold
C13_SinLazos ==
    construido => \A A \in DOMAIN grafo : A \notin grafo[A]

\* C17 as stated: obtener_estadisticas_grafo(u) reports, for k = 1..4, the
\* number of users whose shortest path from u has exactly k edges
\* (amigos_directos, nivel_2, nivel_3, nivel_4), total_usuarios the number of
\* known users, and alcance the sum of the four counts
C17_Estadisticas ==
    (llamada.op = "obtener_estadisticas_grafo") =>
        LET u == llamada.usuario
            r == llamada.ret
        IN /\ r.amigos_directos = Cardinality(Capa(grafo, u, 1))
           /\ r.nivel_2 = Cardinality(Capa(grafo, u, 2))
           /\ r.nivel_3 = Cardinality(Capa(grafo, u, 3))
           /\ r.nivel_4 = Cardinality(Capa(grafo, u, 4))
           /\ r.total_usuarios = Cardinality(usuarios)
           /\ r.alcance = r.amigos_directos + r.nivel_2 + r.nivel_3 + r.nivel_4

Consultas ==
    {"obtener_amigos", "bfs_niveles", "amigos_en_comun",
     "distancia_entre_usuarios"}

\* the empty result of each query
SinResultado(op) ==
    IF op = "bfs_niveles" THEN <<>>
    ELSE IF op = "distancia_entre_usuarios" THEN SinConexion
    ELSE {}

\* C20: a query (obtener_amigos, bfs_niveles, amigos_en_comun,
\* distancia_entre_usuarios) called on a built graph leaves the adjacency
\* mapping as it was, for every argument; called with an id that is not a key
\* it returns the empty result (no neighbours, no levels, no common friends,
\* no path to another id) and the id is not inserted as a key
C20_ConsultasNoModifican ==
    [][(construido /\ llamada'.op \in Consultas) =>
          /\ grafo' = grafo
          /\ IdAusente \notin DOMAIN grafo'
          /\ (llamada'.op \in {"obtener_amigos", "bfs_niveles"}
               /\ llamada'.usuario = IdAusente)
              => llamada'.ret = SinResultado(llamada'.op)
          /\ (llamada'.op = "amigos_en_comun"
               /\ IdAusente \in {llamada'.usuario1, llamada'.usuario2})
              => llamada'.ret = SinResultado(llamada'.op)
          /\ (llamada'.op = "distancia_entre_usuarios"
               /\ IdAusente \in {llamada'.origen, llamada'.destino}
               /\ llamada'.origen # llamada'.destino)
              => llamada'.ret = SinResultado(llamada'.op)]_vars

C20_Witness ==
    /\ construido
    /\ llamada.op = "bfs_niveles"
    /\ llamada.usuario = IdAusente
    /\ llamada.nivel_maximo > 0
    /\ llamada.ret = <<>>
    /\ \E A \in DOMAIN grafo : grafo[A] # {}
    /\ IdAusente \notin DOMAIN grafo

----------------------------------------------------------------------------
(* Claims on the traversals step by step, under SpecPasos *)

SinRepetidos(lista) ==
    \A i \in 1..Len(lista), j \in 1..Len(lista) :
        lista[i] = lista[j] => i = j

Recorriendo == llamada # SinLlamada /\ llamada.fase = "bucle"
Retornado == llamada # SinLlamada /\ llamada.fase = "retorno"

\* C16: bfs_niveles and distancia_entre_usuarios append each id to the queue
\* at most once, on every graph (cycles and self-loops included), for every
\* origin and bound; every traversal that has started reaches its return,
\* having run at most one iteration per appended id, and returns what the
\* breadth-first search defines
C16_TerminaEncolandoUnaVez ==
    /\ [](llamada # SinLlamada => SinRepetidos(llamada.encolados))
    /\ [](Recorriendo =>
             /\ Len(llamada.cola) <= Len(llamada.encolados)
             /\ {llamada.encolados[i] : i \in 1..Len(llamada.encolados)}
                    = llamada.visitados)
    /\ [](Retornado =>
             IF llamada.op = "bfs_niveles"
             THEN llamada.ret = BfsNivelesDe(grafo, llamada.usuario,
                                             llamada.nivel_maximo)
             ELSE llamada.ret = DistanciaDe(grafo, llamada.origen,
                                            llamada.destino,
                                            llamada.max_distancia))
    /\ (Recorriendo ~> Retornado)

C16_Witness ==
    /\ Retornado
    /\ llamada.op = "bfs_niveles"
    /\ Len(llamada.encolados) = NumUsuariosFilas
    /\ llamada.usuario \in grafo[llamada.usuario]
    /\ \A A \in IdsFilas : Cardinality(grafo[A] \ {A}) >= 2

----------------------------------------------------------------------------
(* Claims on the engine among requests that change the store, under
   SpecVistas *)

RecomendacionesRetornadas ==
    /\ llamada.op = "obtener_recomendaciones"
    /\ llamada.fase = "retorno"

\* the lists obtener_recomendaciones(u, limite) can return when it runs
\* alone on the store contents a
ListasSobre(a, u, limite) ==
    LET g == ConstruirGrafo(a.us, a.am)
    IN {RecomendacionesDe(g, a.us, u, limite, orden) :
            orden \in Ordenes(CandidatosIds(g, a.us, a.sol, u, limite))}

\* C14 as stated: the list obtener_recomendaciones returns, when other
\* requests change the store during the call, is a list it would return
\* running alone on the store contents of one instant of the call; and no
\* returned user was a direct friend of u at every instant of the call, or
\* had a pending request with u at every instant of the call
C14_UnSoloInstante ==
    RecomendacionesRetornadas =>
        LET u == llamada.usuario
            instantes == {llamada.instantes[i] : i \in 1..Len(llamada.instantes)}
        IN /\ \E a \in instantes :
                  llamada.ret \in ListasSobre(a, u, llamada.limite)
           /\ \A i \in 1..Len(llamada.ret) :
                  LET x == llamada.ret[i].usuario
                  IN /\ \E a \in instantes : ~SonAmigosEn(a.am, u, x)
                     /\ \E a \in instantes : ~HayPendienteEn(a.sol, u, x)

\* C15: the adjacency construir_grafo() leaves depends only on the store it
\* reads, whatever the instance held before (an earlier build, on a store
\* that has since lost users or rows): its keys are exactly the ids of the
\* current users, isolated ones included, and grafo[A] is exactly the set of
\* B joined to A by a current Amistad row; a call on an instance whose
\* adjacency already reflects the store leaves it equal
C15_SoloElAlmacenActual ==
    /\ []((llamada.op = "construir_grafo") =>
              /\ DOMAIN grafo = usuarios
              /\ \A A \in usuarios :
                     grafo[A] = {B \in IdsVistas : SonAmigosEn(amistades, A, B)}
              /\ construido)
    /\ [][(/\ llamada'.op = "construir_grafo"
            /\ grafo = ConstruirGrafo(usuarios, amistades))
           => grafo' = grafo]_vars

C15_Witness ==
    /\ llamada.op = "construir_grafo"
    /\ \E A \in DOMAIN llamada.anterior :
          /\ A \notin usuarios
          /\ llamada.anterior[A] # {}
    /\ \E A \in usuarios : \E B \in usuarios :
          /\ B \in Get(llamada.anterior, A)
          /\ B \notin grafo[A]
    /\ \E A \in usuarios : grafo[A] = {}

\* C18: when the id of a mutual friend of a candidate does not resolve to a
\* user during enrichment, that name alone is left out: the candidate's
\* record is appended with the score and the num_amigos_comun that
\* calcular_puntuacion gave, it is returned like any other record (sorted,
\* then cut at the limit), amigos_comun_nombres holds at most 3 names and
\* not the unresolved one, and the call raises no error
C18_NombreOmitido ==
    RecomendacionesRetornadas =>
        /\ llamada.error = "ninguno"
        /\ llamada.ret = Slice(OrdenarPorPuntuacion(llamada.recomendaciones),
                               llamada.limite)
        /\ \A i \in 1..Len(llamada.recomendaciones) :
               Cardinality(llamada.recomendaciones[i].amigos_comun_nombres)
                   <= MaxNombres
        /\ \A o \in llamada.omitidos :
               \E i \in 1..Len(llamada.recomendaciones) :
                   LET r == llamada.recomendaciones[i]
                       datos == CalcularPuntuacionDe(grafo, llamada.usuario, o[1])
                   IN /\ r.usuario = o[1]
                      /\ r.puntuacion = datos.puntuacion
                      /\ r.num_amigos_comun = datos.num_amigos_comun
                      /\ r.distancia = datos.distancia
                      /\ o[2] \in datos.amigos_comun
                      /\ o[2] \notin r.amigos_comun_nombres

C18_Witness ==
    /\ RecomendacionesRetornadas
    /\ llamada.omitidos # {}
    /\ \E i \in 1..Len(llamada.ret) :
          /\ llamada.ret[i].num_amigos_comun = 1
          /\ llamada.ret[i].puntuacion = PuntosAmigoComun + PuntosNivel2
          /\ llamada.ret[i].amigos_comun_nombres = {}
          /\ \E o \in llamada.omitidos :
                /\ o[1] = llamada.ret[i].usuario
                /\ o[2] \notin usuarios

----------------------------------------------------------------------------
(* Claim on the friendship requests, under SpecSolicitudes *)

\* C21 as stated: after any sequence of send, accept, reject, cancel and
\* remove-friend operations, a send from A to B (A # B) creates a new pending
\* request whenever A and B are not friends and no request in state
\* 'pendiente' exists between them in either direction, earlier accepted or
\* rejected requests between them notwithstanding
C21_EnvioCreaPendiente ==
    [][(/\ llamada = SinLlamada
        /\ llamada'.op = "enviar_solicitud"
        /\ llamada'.de # llamada'.para
        /\ ~SonAmigosEn(amistades, llamada'.de, llamada'.para)
        /\ ~HayPendienteEn(solicitudes, llamada'.de, llamada'.para))
       => /\ [de |-> llamada'.de, para |-> llamada'.para,
               estado |-> "pendiente"] \in solicitudes'
          /\ llamada'.resultado = "creada"]_vars

============================================================================
